---- MODULE Spec2Model ----
(***************************************************************************)
(* ViewportControls (deck.gl core/controllers/viewport-controls.js): the   *)
(* controller that turns gesture events into proposed viewport props.      *)
(* The controller is modelled from its source.  The ViewportState variant  *)
(* (MapState and friends) and the event manager are collaborators whose    *)
(* code is not part of the sources at hand; they are modelled from the     *)
(* written specification of their contracts.                               *)
(*                                                                         *)
(* Numbers are fixed point: a JS number v is the integer v * FP, except    *)
(* pixel quantities (positions, deltas, width, height), wheel deltas, key  *)
(* codes and durations, which are plain integers.                          *)
(***************************************************************************)
EXTENDS Integers, Sequences, FiniteSets, TLC

----------------------------------------------------------------------------
(* Bounds of the model *)

\* registrations of handleEvent kept per event manager and event name
MaxReg == 2
\* toggles an options object of the gesture specification may switch away
\* from their defaults
MaxOff == 2

----------------------------------------------------------------------------
(* JS numbers *)

FP == 1000
Undefined == 2000000002
NaN == 2000000001
Infinity == 2000000000

IsNumber(v) == v # Undefined /\ v # NaN /\ v # Infinity /\ v # -Infinity

Abs(n) == IF n < 0 THEN -n ELSE n

Sign(n) == IF n < 0 THEN -1 ELSE IF n > 0 THEN 1 ELSE 0

\* integer division rounding toward zero
Quot(a, b) == Sign(a) * Sign(b) * (Abs(a) \div Abs(b))

\* a / b for fixed-point a, b: the fixed-point quotient, with the values JS
\* gives for a zero divisor and for operands that are no numbers
JsDiv(a, b) ==
  IF a = Undefined \/ b = Undefined \/ a = NaN \/ b = NaN THEN NaN
  ELSE IF Abs(a) = Infinity
    THEN IF Abs(b) = Infinity THEN NaN
         ELSE IF b < 0 THEN -a ELSE a
  ELSE IF Abs(b) = Infinity THEN 0
  ELSE IF b = 0
    THEN IF a = 0 THEN NaN ELSE IF a > 0 THEN Infinity ELSE -Infinity
  ELSE Quot(a * FP, b)

\* a * b for fixed-point a, b
JsMul(a, b) ==
  IF a = Undefined \/ b = Undefined \/ a = NaN \/ b = NaN THEN NaN
  ELSE IF Abs(a) = Infinity \/ Abs(b) = Infinity
    THEN IF a = 0 \/ b = 0 THEN NaN
         ELSE IF Sign(a) * Sign(b) < 0 THEN -Infinity ELSE Infinity
  ELSE Quot(a * b, FP)

JsAdd(a, b) ==
  IF a = Undefined \/ b = Undefined \/ a = NaN \/ b = NaN THEN NaN
  ELSE IF Abs(a) = Infinity
    THEN IF Abs(b) = Infinity /\ a # b THEN NaN ELSE a
  ELSE IF Abs(b) = Infinity THEN b
  ELSE a + b

JsNeg(a) == IF a = Undefined \/ a = NaN THEN NaN ELSE -a

JsSub(a, b) == JsAdd(a, JsNeg(b))

\* Math.min / Math.max of two numbers
MathMin(a, b) == IF a = NaN \/ b = NaN THEN NaN ELSE IF a < b THEN a ELSE b

MathMax(a, b) == IF a = NaN \/ b = NaN THEN NaN ELSE IF a > b THEN a ELSE b

\* a !== b on numbers: NaN differs from everything, itself included
StrictNotEqual(a, b) == a = NaN \/ b = NaN \/ a # b

\* e^-1 in fixed point
INV_E == 368

\* 1 - f + f^2/2 - f^3/6 for a fixed-point f in [0, 1)
ExpNegFrac(f) ==
  FP - f + Quot(f * f, 2 * FP) - Quot(Quot(f * f, FP) * f, 6 * FP)

\* acc * e^-n for a natural n; once it is 0 it stays 0
RECURSIVE ExpNegTimes(_, _)
ExpNegTimes(n, acc) ==
  IF n = 0 \/ acc = 0 THEN acc ELSE ExpNegTimes(n - 1, Quot(acc * INV_E, FP))

ExpNegWhole(n) == ExpNegTimes(n, FP)

\* Math.exp(-x) for a fixed-point x >= 0; for large x it is less than the
\* fixed point resolves and adds nothing to 1
MathExpNeg(x) == Quot(ExpNegWhole(x \div FP) * ExpNegFrac(x % FP), FP)

----------------------------------------------------------------------------
(* Transition props, event handling parameters, event names *)

NO_TRANSITION_PROPS == [transitionDuration |-> 0]

LINEAR_TRANSITION_PROPS ==
  [transitionDuration |-> 300,
   transitionEasing |-> "identity",
   transitionInterpolator |-> "LinearInterpolator",
   transitionInterruption |-> "BREAK"]

\* extraProps = null / extraState = {}
NoProps == <<>>

PITCH_MOUSE_THRESHOLD == 5
\* 1.2
PITCH_ACCEL == 1200
\* 0.01
ZOOM_ACCEL == 10

WHEEL == {"wheel"}
PAN == {"panstart", "panmove", "panend"}
PINCH == {"pinchstart", "pinchmove", "pinchend"}
DOUBLE_TAP == {"doubletap"}
KEYBOARD == {"keydown"}

EventNames == WHEEL \cup PAN \cup PINCH \cup DOUBLE_TAP \cup KEYBOARD

----------------------------------------------------------------------------
(* ViewportState: an immutable value, built afresh for every event from    *)
(* the ViewportProps the owner supplied and the InteractionState the       *)
(* controller carries.  Every operation returns a new value.               *)

ViewportPropKeys ==
  {"longitude", "latitude", "zoom", "bearing", "pitch", "width", "height"}

InteractiveKeys == {"isPanning", "isRotating", "isZooming", "startPanPos"}

NoPos == <<Undefined, Undefined>>

MAX_PITCH == 60
KEY_MOVE_STEP == 10
KEY_ROTATE_STEP == 15

\* new ViewportState(Object.assign({}, viewStateProps, _state))
NewViewportState(obj) ==
  [props |-> [k \in ViewportPropKeys |-> obj[k]],
   inter |-> [k \in InteractiveKeys |-> obj[k]]]

getViewportProps(vs) == vs.props

getInteractiveState(vs) == vs.inter

WithProps(vs, changes) == [vs EXCEPT !.props = changes @@ vs.props]

WithInter(vs, changes) == [vs EXCEPT !.inter = changes @@ vs.inter]

panStart(vs, pos) == WithInter(vs, [isPanning |-> TRUE, startPanPos |-> pos])

\* outcomes of a pan that no panStart precedes, which the contract leaves
\* undefined
UndefinedPanOutcomes == {"unchanged", "NaN"}

pan(vs, pos, ub) ==
  IF vs.inter.startPanPos = NoPos
    THEN IF ub = "NaN"
           THEN WithProps(vs, [longitude |-> NaN, latitude |-> NaN])
           ELSE vs
    ELSE WithProps(vs,
           [longitude |->
              JsSub(vs.props.longitude, (pos[1] - vs.inter.startPanPos[1]) * FP),
            latitude |->
              JsAdd(vs.props.latitude, (pos[2] - vs.inter.startPanPos[2]) * FP)])

panEnd(vs) == WithInter(vs, [isPanning |-> FALSE, startPanPos |-> NoPos])

rotateStart(vs, pos) == WithInter(vs, [isRotating |-> TRUE])

ClampPitch(p) == MathMin(MAX_PITCH * FP, MathMax(0, p))

\* a delta that is not passed counts as 0
rotate(vs, deltaScaleX, deltaScaleY) ==
  LET dx == IF deltaScaleX = Undefined THEN 0 ELSE deltaScaleX
      dy == IF deltaScaleY = Undefined THEN 0 ELSE deltaScaleY
  IN WithProps(vs,
       [bearing |-> JsAdd(vs.props.bearing, JsMul(180 * FP, dx)),
        pitch |-> ClampPitch(JsAdd(vs.props.pitch, JsMul(MAX_PITCH * FP, dy)))])

rotateEnd(vs) == WithInter(vs, [isRotating |-> FALSE])

zoomStart(vs, pos) == WithInter(vs, [isZooming |-> TRUE])

\* multiplies the zoom level by scale; the result is never below 0
zoom(vs, pos, scale) ==
  WithProps(vs, [zoom |-> MathMax(0, JsMul(vs.props.zoom, scale))])

zoomEnd(vs) == WithInter(vs, [isZooming |-> FALSE])

zoomIn(vs) == WithProps(vs, [zoom |-> JsAdd(vs.props.zoom, FP)])

zoomOut(vs) == WithProps(vs, [zoom |-> MathMax(0, JsSub(vs.props.zoom, FP))])

moveLeft(vs) ==
  WithProps(vs, [longitude |-> JsSub(vs.props.longitude, KEY_MOVE_STEP * FP)])

moveRight(vs) ==
  WithProps(vs, [longitude |-> JsAdd(vs.props.longitude, KEY_MOVE_STEP * FP)])

moveUp(vs) ==
  WithProps(vs, [latitude |-> JsAdd(vs.props.latitude, KEY_MOVE_STEP * FP)])

moveDown(vs) ==
  WithProps(vs, [latitude |-> JsSub(vs.props.latitude, KEY_MOVE_STEP * FP)])

rotateLeft(vs) ==
  WithProps(vs, [bearing |-> JsSub(vs.props.bearing, KEY_ROTATE_STEP * FP)])

rotateRight(vs) ==
  WithProps(vs, [bearing |-> JsAdd(vs.props.bearing, KEY_ROTATE_STEP * FP)])

rotateUp(vs) ==
  WithProps(vs,
    [pitch |-> ClampPitch(JsAdd(vs.props.pitch, KEY_ROTATE_STEP * FP))])

rotateDown(vs) ==
  WithProps(vs,
    [pitch |-> ClampPitch(JsSub(vs.props.pitch, KEY_ROTATE_STEP * FP))])

\* one call of a ViewportState operation, as the controller makes it
Call(op, pos, scale, deltaScaleX, deltaScaleY) ==
  [op |-> op, pos |-> pos, scale |-> scale,
   deltaScaleX |-> deltaScaleX, deltaScaleY |-> deltaScaleY]

Call0(op) == Call(op, NoPos, Undefined, Undefined, Undefined)

CallPos(op, pos) == Call(op, pos, Undefined, Undefined, Undefined)

----------------------------------------------------------------------------
(* Events of the gesture recogniser *)

ModifierKeys == {"metaKey", "altKey", "ctrlKey", "shiftKey"}

\* an event with the fields the handlers read; held is the set of modifier
\* keys that are down
Event(type, pos, deltaX, deltaY, delta, scale, rotation, rightButton, held, keyCode) ==
  [type |-> type, offsetCenter |-> pos, deltaX |-> deltaX, deltaY |-> deltaY,
   delta |-> delta, scale |-> scale, rotation |-> rotation,
   rightButton |-> rightButton,
   srcEvent |-> [metaKey |-> "metaKey" \in held, altKey |-> "altKey" \in held,
                 ctrlKey |-> "ctrlKey" \in held, shiftKey |-> "shiftKey" \in held,
                 keyCode |-> keyCode]]

getCenter(event) == event.offsetCenter

isFunctionKeyPressed(event) ==
  event.srcEvent.metaKey \/ event.srcEvent.altKey
    \/ event.srcEvent.ctrlKey \/ event.srcEvent.shiftKey

----------------------------------------------------------------------------
(* The controller.  `this` is the record of its fields. *)

ToggleKeys ==
  {"scrollZoom", "dragPan", "dragRotate", "doubleClickZoom", "touchZoom",
   "touchRotate", "keyboard"}

ToggleDefault ==
  [scrollZoom |-> TRUE, dragPan |-> TRUE, dragRotate |-> TRUE,
   doubleClickZoom |-> TRUE, touchZoom |-> TRUE, touchRotate |-> FALSE,
   keyboard |-> TRUE]

\* the value a destructuring default gives: the option if it is supplied
Option(options, key, default) ==
  IF key \in DOMAIN options THEN options[key] ELSE default

\* eventManager.on(eventName, this.handleEvent): one more registration
EventManagerOn(count) == count + 1

\* eventManager.off(eventName, this.handleEvent): the handler is removed
EventManagerOff(count) == 0

\* toggleEvents on st = [eventManager, _events, registered]
toggleEvents(st, eventNames, enabled) ==
  IF st.eventManager = "null" THEN st
  ELSE LET flag == IF enabled THEN "true" ELSE "false"
           changed == {n \in eventNames : st._events[n] # flag}
       IN [st EXCEPT
             !._events = [n \in EventNames |->
                            IF n \in changed THEN flag ELSE st._events[n]],
             !.registered[st.eventManager] =
                [n \in EventNames |->
                   IF n \in changed
                     THEN IF enabled THEN EventManagerOn(@[n])
                          ELSE EventManagerOff(@[n])
                     ELSE @[n]]]

\* this.events, the names a subclass adds; the base class has none
events == {}

NoEvents == [n \in EventNames |-> "undefined"]

\* Subscribe with the keyboard group toggled by its toggle alone
Subscribe_KeyboardNotGated(this, registered, eventManager, isInteractive, t) ==
  LET st0 == [eventManager |-> this.eventManager, _events |-> this._events,
              registered |-> registered]
      st1 == IF this.eventManager # eventManager
               THEN toggleEvents([st0 EXCEPT !.eventManager = eventManager,
                                             !._events = NoEvents],
                                 events, TRUE)
               ELSE st0
      st2 == toggleEvents(st1, WHEEL, isInteractive /\ t.scrollZoom)
      st3 == toggleEvents(st2, PAN, isInteractive /\ (t.dragPan \/ t.dragRotate))
      st4 == toggleEvents(st3, PINCH,
                          isInteractive /\ (t.touchZoom \/ t.touchRotate))
      st5 == toggleEvents(st4, DOUBLE_TAP, isInteractive /\ t.doubleClickZoom)
  IN toggleEvents(st5, KEYBOARD, t.keyboard)

\* Subscribe with the pan group toggled whatever dragPan and dragRotate are
Subscribe_PanNotToggled(this, registered, eventManager, isInteractive, t) ==
  LET st0 == [eventManager |-> this.eventManager, _events |-> this._events,
              registered |-> registered]
      st1 == IF this.eventManager # eventManager
               THEN toggleEvents([st0 EXCEPT !.eventManager = eventManager,
                                             !._events = NoEvents],
                                 events, TRUE)
               ELSE st0
      st2 == toggleEvents(st1, WHEEL, isInteractive /\ t.scrollZoom)
      st3 == toggleEvents(st2, PAN, isInteractive)
      st4 == toggleEvents(st3, PINCH,
                          isInteractive /\ (t.touchZoom \/ t.touchRotate))
      st5 == toggleEvents(st4, DOUBLE_TAP, isInteractive /\ t.doubleClickZoom)
  IN toggleEvents(st5, KEYBOARD, isInteractive /\ t.keyboard)

\* the event manager part of setOptions: the manager is replaced, then the
\* five groups are toggled
Subscribe(this, registered, eventManager, isInteractive, t) ==
  LET st0 == [eventManager |-> this.eventManager, _events |-> this._events,
              registered |-> registered]
      st1 == IF this.eventManager # eventManager
               THEN toggleEvents([st0 EXCEPT !.eventManager = eventManager,
                                             !._events = NoEvents],
                                 events, TRUE)
               ELSE st0
      st2 == toggleEvents(st1, WHEEL, isInteractive /\ t.scrollZoom)
      st3 == toggleEvents(st2, PAN, isInteractive /\ (t.dragPan \/ t.dragRotate))
      st4 == toggleEvents(st3, PINCH,
                          isInteractive /\ (t.touchZoom \/ t.touchRotate))
      st5 == toggleEvents(st4, DOUBLE_TAP, isInteractive /\ t.doubleClickZoom)
  IN toggleEvents(st5, KEYBOARD, isInteractive /\ t.keyboard)

\* a setOptions that merges: an omitted toggle keeps the controller's value
setOptions_Merging(this, registered, options) ==
  LET onViewportChange == Option(options, "onViewportChange", "undefined")
      onStateChange == Option(options, "onStateChange", this.onStateChange)
      eventManager == Option(options, "eventManager", this.eventManager)
      t == [k \in ToggleKeys |-> Option(options, k, this[k])]
      isInteractive == onViewportChange = "fn"
      st == Subscribe(this, registered, eventManager, isInteractive, t)
  IN [this |->
        [this EXCEPT
           !.onViewportChange = onViewportChange,
           !.onStateChange = onStateChange,
           !.viewStateProps = [k \in ViewportPropKeys |-> options[k]],
           !.eventManager = st.eventManager,
           !._events = st._events,
           !.scrollZoom = t.scrollZoom,
           !.dragPan = t.dragPan,
           !.dragRotate = t.dragRotate,
           !.doubleClickZoom = t.doubleClickZoom,
           !.touchZoom = t.touchZoom,
           !.touchRotate = t.touchRotate,
           !.keyboard = t.keyboard],
      registered |-> st.registered]

\* setOptions(options): the controller's fields and the registrations after
\* the call
setOptions(this, registered, options) ==
  LET onViewportChange == Option(options, "onViewportChange", "undefined")
      onStateChange == Option(options, "onStateChange", this.onStateChange)
      eventManager == Option(options, "eventManager", this.eventManager)
      t == [k \in ToggleKeys |-> Option(options, k, ToggleDefault[k])]
      isInteractive == onViewportChange = "fn"
      st == Subscribe(this, registered, eventManager, isInteractive, t)
  IN [this |->
        [this EXCEPT
           !.onViewportChange = onViewportChange,
           !.onStateChange = onStateChange,
           !.viewStateProps = [k \in ViewportPropKeys |-> options[k]],
           !.eventManager = st.eventManager,
           !._events = st._events,
           !.scrollZoom = t.scrollZoom,
           !.dragPan = t.dragPan,
           !.dragRotate = t.dragRotate,
           !.doubleClickZoom = t.doubleClickZoom,
           !.touchZoom = t.touchZoom,
           !.touchRotate = t.touchRotate,
           !.keyboard = t.keyboard],
      registered |-> st.registered]

\* what a handler leaves: its return value, the callbacks it invoked in
\* order, the ViewportState operations it called in order, and _state
Result(ret, calls, ops, state) ==
  [ret |-> ret, calls |-> calls, ops |-> ops, state |-> state]

Ignored(this) == Result("false", <<>>, <<>>, this._state)

\* setState(newState): [state, calls]
setState(this, newState) ==
  LET state == newState @@ this._state
  IN [state |-> state,
      calls |-> IF this.onStateChange = "fn"
                  THEN <<[fn |-> "onStateChange", arg |-> state]>>
                  ELSE <<>>]

\* Object.keys(newViewport).some(key => oldViewport[key] !== newViewport[key])
SomeKeyDiffers(oldViewport, newViewport) ==
  \E key \in DOMAIN newViewport :
    \/ key \notin DOMAIN oldViewport
    \/ StrictNotEqual(oldViewport[key], newViewport[key])

\* updateViewport that sets the state before it reports the viewport
updateViewport_StateFirst(this, viewState, newViewportState, ops, extraProps, extraState) ==
  LET oldViewport == getViewportProps(viewState)
      newViewport == extraProps @@ getViewportProps(newViewportState)
      fire == this.onViewportChange = "fn"
                /\ SomeKeyDiffers(oldViewport, newViewport)
      set == setState(this, extraState @@ getInteractiveState(newViewportState))
  IN Result("undefined",
            set.calls \o
              (IF fire THEN <<[fn |-> "onViewportChange", arg |-> newViewport]>>
                       ELSE <<>>),
            ops, set.state)

\* updateViewport that passes the new ViewportProps to setState as well
updateViewport_KeepsProps(this, viewState, newViewportState, ops, extraProps, extraState) ==
  LET oldViewport == getViewportProps(viewState)
      newViewport == extraProps @@ getViewportProps(newViewportState)
      fire == this.onViewportChange = "fn"
                /\ SomeKeyDiffers(oldViewport, newViewport)
      set == setState(this, extraState @@ getInteractiveState(newViewportState)
                              @@ getViewportProps(newViewportState))
  IN Result("undefined",
            (IF fire THEN <<[fn |-> "onViewportChange", arg |-> newViewport]>>
                     ELSE <<>>) \o set.calls,
            ops, set.state)

\* updateViewport(newViewportState, extraProps, extraState), viewState being
\* this.viewState; ops are the operations that built newViewportState
updateViewport(this, viewState, newViewportState, ops, extraProps, extraState) ==
  LET oldViewport == getViewportProps(viewState)
      newViewport == extraProps @@ getViewportProps(newViewportState)
      fire == this.onViewportChange = "fn"
                /\ SomeKeyDiffers(oldViewport, newViewport)
      set == setState(this, extraState @@ getInteractiveState(newViewportState))
  IN Result("undefined",
            (IF fire THEN <<[fn |-> "onViewportChange", arg |-> newViewport]>>
                     ELSE <<>>) \o set.calls,
            ops, set.state)

Dragging(b) == [isDragging |-> b]

\* Default handler for the `panstart` event.
_onPanStart(this, viewState, event) ==
  LET pos == getCenter(event)
      newViewportState == rotateStart(panStart(viewState, pos), pos)
  IN updateViewport(this, viewState, newViewportState,
                    <<CallPos("panStart", pos), CallPos("rotateStart", pos)>>,
                    NO_TRANSITION_PROPS, Dragging(TRUE))

\* _onPanEnd that leaves isDragging set
_onPanEnd_StillDragging(this, viewState, event) ==
  LET newViewportState == rotateEnd(panEnd(viewState))
  IN updateViewport(this, viewState, newViewportState,
                    <<Call0("panEnd"), Call0("rotateEnd")>>,
                    NoProps, Dragging(TRUE))

\* Default handler for the `panend` event.
_onPanEnd(this, viewState, event) ==
  LET newViewportState == rotateEnd(panEnd(viewState))
  IN updateViewport(this, viewState, newViewportState,
                    <<Call0("panEnd"), Call0("rotateEnd")>>,
                    NoProps, Dragging(FALSE))

\* _onPanMove without the dragPan guard
_onPanMove_Unguarded(this, viewState, event, ub) ==
  LET pos == getCenter(event)
      newViewportState == pan(viewState, pos, ub)
  IN updateViewport(this, viewState, newViewportState,
                    <<CallPos("pan", pos)>>,
                    NO_TRANSITION_PROPS, Dragging(TRUE))

\* Default handler for panning to move.
_onPanMove(this, viewState, event, ub) ==
  IF ~this.dragPan THEN Ignored(this)
  ELSE LET pos == getCenter(event)
           newViewportState == pan(viewState, pos, ub)
       IN updateViewport(this, viewState, newViewportState,
                         <<CallPos("pan", pos)>>,
                         NO_TRANSITION_PROPS, Dragging(TRUE))

\* Normal pan to rotate
_onPanRotateStandard(this, viewState, event) ==
  LET width == getViewportProps(viewState).width
      height == getViewportProps(viewState).height
      deltaScaleX == JsDiv(event.deltaX * FP, width * FP)
      deltaScaleY == JsDiv(event.deltaY * FP, height * FP)
      newViewportState == rotate(viewState, deltaScaleX, deltaScaleY)
  IN updateViewport(this, viewState, newViewportState,
                    <<Call("rotate", NoPos, Undefined, deltaScaleX, deltaScaleY)>>,
                    NO_TRANSITION_PROPS, Dragging(TRUE))

_onPanRotateMap(this, viewState, event) ==
  LET deltaX == event.deltaX
      deltaY == event.deltaY
      centerY == getCenter(event)[2]
      startY == centerY - deltaY
      width == getViewportProps(viewState).width
      height == getViewportProps(viewState).height
      deltaScaleX == JsDiv(deltaX * FP, width * FP)
      raw == IF deltaY > 0
               THEN IF Abs(height - startY) > PITCH_MOUSE_THRESHOLD
                      THEN JsMul(JsDiv(deltaY * FP, (startY - height) * FP),
                                 PITCH_ACCEL)
                      ELSE 0
             ELSE IF deltaY < 0
               THEN IF startY > PITCH_MOUSE_THRESHOLD
                      THEN JsSub(FP, JsDiv(centerY * FP, startY * FP))
                      ELSE 0
             ELSE 0
      deltaScaleY == MathMin(FP, MathMax(-FP, raw))
      newViewportState == rotate(viewState, deltaScaleX, deltaScaleY)
  IN updateViewport(this, viewState, newViewportState,
                    <<Call("rotate", NoPos, Undefined, deltaScaleX, deltaScaleY)>>,
                    NO_TRANSITION_PROPS, Dragging(TRUE))

\* Default handler for panning to rotate.
_onPanRotate(this, viewState, event) ==
  IF ~this.dragRotate THEN Ignored(this)
  ELSE IF this.ViewportState = "MapState"
    THEN _onPanRotateMap(this, viewState, event)
    ELSE _onPanRotateStandard(this, viewState, event)

\* _onPan that pans when the rotation is switched off
_onPan_FallsBack(this, viewState, event, ub) ==
  IF (isFunctionKeyPressed(event) \/ event.rightButton) /\ this.dragRotate
    THEN _onPanRotate(this, viewState, event)
    ELSE _onPanMove(this, viewState, event, ub)

\* Default handler for the `panmove` event.
_onPan(this, viewState, event, ub) ==
  IF isFunctionKeyPressed(event) \/ event.rightButton
    THEN _onPanRotate(this, viewState, event)
    ELSE _onPanMove(this, viewState, event, ub)

\* the wheel scale without the inversion for a negative delta
WheelScale_NotInverted(delta) ==
  JsDiv(2 * FP, FP + MathExpNeg(Abs(delta * ZOOM_ACCEL)))

\* a wheel scale that grows with the delta: 1 + |delta * ZOOM_ACCEL|
WheelScale_Linear(delta) ==
  LET scale == FP + Abs(delta * ZOOM_ACCEL)
  IN IF delta < 0 /\ scale # 0 THEN JsDiv(FP, scale) ELSE scale

\* Map wheel delta to relative scale
WheelScale(delta) ==
  LET scale == JsDiv(2 * FP, FP + MathExpNeg(Abs(delta * ZOOM_ACCEL)))
  IN IF delta < 0 /\ scale # 0 THEN JsDiv(FP, scale) ELSE scale

\* Default handler for the `wheel` event.
_onWheel(this, viewState, event) ==
  IF ~this.scrollZoom THEN Ignored(this)
  ELSE LET pos == getCenter(event)
           scale == WheelScale(event.delta)
           newViewportState == zoom(viewState, pos, scale)
       IN updateViewport(this, viewState, newViewportState,
                         <<Call("zoom", pos, scale, Undefined, Undefined)>>,
                         NO_TRANSITION_PROPS, NoProps)

\* _onPinchStart that does not record the rotation of the event
_onPinchStart_NoAnchor(this, viewState, event) ==
  LET pos == getCenter(event)
      newViewportState == rotateStart(zoomStart(viewState, pos), pos)
  IN updateViewport(this, viewState, newViewportState,
                    <<CallPos("zoomStart", pos), CallPos("rotateStart", pos)>>,
                    NO_TRANSITION_PROPS, Dragging(TRUE))

\* Default handler for the `pinchstart` event.
_onPinchStart(this, viewState, event) ==
  LET pos == getCenter(event)
      newViewportState == rotateStart(zoomStart(viewState, pos), pos)
      marked == [this EXCEPT !._state.startPinchRotation = event.rotation]
  IN updateViewport(marked, viewState, newViewportState,
                    <<CallPos("zoomStart", pos), CallPos("rotateStart", pos)>>,
                    NO_TRANSITION_PROPS, Dragging(TRUE))

\* deltaScaleX of a pinch: -(rotation - startPinchRotation) / 180
PinchDeltaScaleX(rotation, startPinchRotation) ==
  JsDiv(JsNeg(JsSub(rotation, startPinchRotation)), 180 * FP)

\* Default handler for the `pinch` event.
_onPinch(this, viewState, event) ==
  IF ~this.touchZoom /\ ~this.touchRotate THEN Ignored(this)
  ELSE LET pos == getCenter(event)
           zoomed == IF this.touchZoom
                       THEN zoom(viewState, pos, event.scale)
                       ELSE viewState
           deltaScaleX ==
             PinchDeltaScaleX(event.rotation, this._state.startPinchRotation)
           newViewportState == IF this.touchRotate
                                 THEN rotate(zoomed, deltaScaleX, Undefined)
                                 ELSE zoomed
           ops == (IF this.touchZoom
                     THEN <<Call("zoom", pos, event.scale, Undefined, Undefined)>>
                     ELSE <<>>)
                  \o (IF this.touchRotate
                        THEN <<Call("rotate", NoPos, Undefined, deltaScaleX,
                                    Undefined)>>
                        ELSE <<>>)
       IN updateViewport(this, viewState, newViewportState, ops,
                         NO_TRANSITION_PROPS, Dragging(TRUE))

\* Default handler for the `pinchend` event.
_onPinchEnd(this, viewState, event) ==
  LET newViewportState == rotateEnd(zoomEnd(viewState))
      marked == [this EXCEPT !._state.startPinchRotation = 0]
  IN updateViewport(marked, viewState, newViewportState,
                    <<Call0("zoomEnd"), Call0("rotateEnd")>>,
                    NoProps, Dragging(FALSE))

\* the double-tap scales the wrong way round
DoubleTapScale_Swapped(isZoomOut) == IF isZoomOut THEN 2 * FP ELSE FP \div 2

\* scale of a double tap: 0.5 to zoom out, 2 to zoom in
DoubleTapScale(isZoomOut) == IF isZoomOut THEN FP \div 2 ELSE 2 * FP

\* Default handler for the `doubletap` event.
_onDoubleTap(this, viewState, event) ==
  IF ~this.doubleClickZoom THEN Ignored(this)
  ELSE LET pos == getCenter(event)
           isZoomOut == isFunctionKeyPressed(event)
           scale == DoubleTapScale(isZoomOut)
           newViewportState == zoom(viewState, pos, scale)
       IN updateViewport(this, viewState, newViewportState,
                         <<Call("zoom", pos, scale, Undefined, Undefined)>>,
                         LINEAR_TRANSITION_PROPS, NoProps)

KeyCodes == {189, 187, 37, 39, 38, 40}

\* KeyOps that zooms one step whether or not a function key is held
KeyOps_SingleZoom(keyCode, funcKey) ==
  CASE keyCode = 189 -> <<"zoomOut">>
    [] keyCode = 187 -> <<"zoomIn">>
    [] keyCode = 37 -> IF funcKey THEN <<"rotateLeft">> ELSE <<"moveLeft">>
    [] keyCode = 39 -> IF funcKey THEN <<"rotateRight">> ELSE <<"moveRight">>
    [] keyCode = 38 -> IF funcKey THEN <<"rotateUp">> ELSE <<"moveUp">>
    [] keyCode = 40 -> IF funcKey THEN <<"rotateDown">> ELSE <<"moveDown">>
    [] OTHER -> <<>>

\* the operations a key maps to, in order
KeyOps(keyCode, funcKey) ==
  CASE keyCode = 189 -> IF funcKey THEN <<"zoomOut", "zoomOut">> ELSE <<"zoomOut">>
    [] keyCode = 187 -> IF funcKey THEN <<"zoomIn", "zoomIn">> ELSE <<"zoomIn">>
    [] keyCode = 37 -> IF funcKey THEN <<"rotateLeft">> ELSE <<"moveLeft">>
    [] keyCode = 39 -> IF funcKey THEN <<"rotateRight">> ELSE <<"moveRight">>
    [] keyCode = 38 -> IF funcKey THEN <<"rotateUp">> ELSE <<"moveUp">>
    [] keyCode = 40 -> IF funcKey THEN <<"rotateDown">> ELSE <<"moveDown">>
    [] OTHER -> <<>>

Step(vs, op) ==
  CASE op = "zoomOut" -> zoomOut(vs)
    [] op = "zoomIn" -> zoomIn(vs)
    [] op = "moveLeft" -> moveLeft(vs)
    [] op = "moveRight" -> moveRight(vs)
    [] op = "moveUp" -> moveUp(vs)
    [] op = "moveDown" -> moveDown(vs)
    [] op = "rotateLeft" -> rotateLeft(vs)
    [] op = "rotateRight" -> rotateRight(vs)
    [] op = "rotateUp" -> rotateUp(vs)
    [] op = "rotateDown" -> rotateDown(vs)

RECURSIVE Steps(_, _)
Steps(vs, names) ==
  IF names = <<>> THEN vs ELSE Steps(Step(vs, Head(names)), Tail(names))

\* Default handler for the `keydown` event
_onKeyDown(this, viewState, event) ==
  IF ~this.keyboard THEN Ignored(this)
  ELSE LET funcKey == isFunctionKeyPressed(event)
           names == KeyOps(event.srcEvent.keyCode, funcKey)
       IN IF names = <<>> THEN Ignored(this)
          ELSE updateViewport(this, viewState, Steps(viewState, names),
                              [i \in 1..Len(names) |-> Call0(names[i])],
                              LINEAR_TRANSITION_PROPS, NoProps)

\* handleEvent whose default case ends the pan
handleEvent_DefaultEndsPan(this, event, ub) ==
  LET viewState == NewViewportState(this._state @@ this.viewStateProps)
  IN CASE event.type = "panstart" -> _onPanStart(this, viewState, event)
       [] event.type = "panmove" -> _onPan(this, viewState, event, ub)
       [] event.type = "pinchstart" -> _onPinchStart(this, viewState, event)
       [] event.type = "pinchmove" -> _onPinch(this, viewState, event)
       [] event.type = "pinchend" -> _onPinchEnd(this, viewState, event)
       [] event.type = "doubletap" -> _onDoubleTap(this, viewState, event)
       [] event.type = "wheel" -> _onWheel(this, viewState, event)
       [] event.type = "keydown" -> _onKeyDown(this, viewState, event)
       [] OTHER -> _onPanEnd(this, viewState, event)

\* Callback for events
handleEvent(this, event, ub) ==
  LET viewState == NewViewportState(this._state @@ this.viewStateProps)
  IN CASE event.type = "panstart" -> _onPanStart(this, viewState, event)
       [] event.type = "panmove" -> _onPan(this, viewState, event, ub)
       [] event.type = "panend" -> _onPanEnd(this, viewState, event)
       [] event.type = "pinchstart" -> _onPinchStart(this, viewState, event)
       [] event.type = "pinchmove" -> _onPinch(this, viewState, event)
       [] event.type = "pinchend" -> _onPinchEnd(this, viewState, event)
       [] event.type = "doubletap" -> _onDoubleTap(this, viewState, event)
       [] event.type = "wheel" -> _onWheel(this, viewState, event)
       [] event.type = "keydown" -> _onKeyDown(this, viewState, event)
       [] OTHER -> Ignored(this)

----------------------------------------------------------------------------
(* State *)

VARIABLES
  ViewportState,     \* the variant the controller was constructed with
  onViewportChange,  \* "fn" when the callback is set, else "undefined"
  onStateChange,     \* "fn" when the callback is set, else "undefined"
  viewStateProps,    \* the ViewportProps of the last options object
  eventManager,      \* "null", or the name of the current event manager
  _events,           \* event name -> "true" / "false" / "undefined"
  _state,            \* the InteractionState carried between events
  scrollZoom, dragPan, dragRotate, doubleClickZoom, touchZoom, touchRotate,
  keyboard,          \* the interaction toggles
  registered,        \* manager -> event name -> registrations of handleEvent
  event,             \* the last event handleEvent was called with
  ret,               \* what that call returned
  calls,             \* the callbacks it invoked, in order
  ops,               \* the ViewportState operations it called, in order
  prevState,         \* _state when it was called
  constructed,       \* the last constructor call: its variant argument, its
                     \* outcome, and the eventManager and onViewportChange
                     \* of its options when it threw
  inProgress,        \* the gesture sequences the event manager has started
                     \* and not yet ended: a subset of {"pan", "pinch"}
  lastCall           \* the last setOptions call that was recorded: its
                     \* options and the configuration it found

config ==
  <<ViewportState, onViewportChange, onStateChange, viewStateProps,
    eventManager, _events, scrollZoom, dragPan, dragRotate, doubleClickZoom,
    touchZoom, touchRotate, keyboard>>

observed == <<event, ret, calls, ops, prevState>>

\* what is kept of the calls made and of the event manager's gestures
history == <<constructed, inProgress, lastCall>>

vars == <<config, registered, _state, observed, history>>

\* this.viewState is written at the start of every handleEvent and read
\* only after that write, so it is a local of handleEvent here.  The
\* callbacks are the owner's: they are recorded in calls, and they do not
\* call back into the controller while the handler runs.

This ==
  [ViewportState |-> ViewportState, onViewportChange |-> onViewportChange,
   onStateChange |-> onStateChange, viewStateProps |-> viewStateProps,
   eventManager |-> eventManager, _events |-> _events, _state |-> _state,
   scrollZoom |-> scrollZoom, dragPan |-> dragPan, dragRotate |-> dragRotate,
   doubleClickZoom |-> doubleClickZoom, touchZoom |-> touchZoom,
   touchRotate |-> touchRotate, keyboard |-> keyboard]

\* the fields the constructor sets before it calls setOptions(options)
Constructed(variant) ==
  [ViewportState |-> variant, onViewportChange |-> "undefined",
   onStateChange |-> "undefined", viewStateProps |-> "null",
   eventManager |-> "null", _events |-> NoEvents,
   _state |-> [isDragging |-> FALSE, startPinchRotation |-> Undefined,
               isPanning |-> FALSE, isRotating |-> FALSE,
               isZooming |-> FALSE, startPanPos |-> NoPos],
   scrollZoom |-> FALSE, dragPan |-> FALSE, dragRotate |-> FALSE,
   doubleClickZoom |-> FALSE, touchZoom |-> FALSE, touchRotate |-> FALSE,
   keyboard |-> FALSE]

Managers == {"A", "B"}

NoRegistrations == [m \in Managers |-> [n \in EventNames |-> 0]]

\* no controller: the fields as they are read before a constructor has run
NoInstance == Constructed("none")

\* a constructor that takes MapState for a missing variant
constructor_DefaultVariant(variant, registrations, options) ==
  LET made == setOptions(Constructed(IF variant = "undefined"
                                       THEN "MapState" ELSE variant),
                         registrations, options)
  IN [thrown |-> "none", this |-> made.this, registered |-> made.registered]

\* new ViewportControls(variant, options): assert(variant) throws before any
\* field is set; otherwise the fields are set and setOptions(options) runs
constructor(variant, registrations, options) ==
  IF variant = "undefined"
    THEN [thrown |-> "AssertionError", this |-> NoInstance,
          registered |-> registrations]
    ELSE LET made == setOptions(Constructed(variant), registrations, options)
         IN [thrown |-> "none", this |-> made.this,
             registered |-> made.registered]

\* the record kept of a constructor call; the options of a call that
\* returned are held by the controller, and the record keeps those of a call
\* that threw
ConstructorCall(variant, options, thrown) ==
  [variant |-> variant,
   eventManager |-> IF thrown = "none" THEN "null"
                    ELSE Option(options, "eventManager", "null"),
   onViewportChange |-> IF thrown = "none" THEN "undefined"
                        ELSE Option(options, "onViewportChange", "undefined"),
   outcome |-> IF thrown = "none" THEN "instance" ELSE thrown]

\* no setOptions call is recorded
NoCall == [made |-> FALSE]

NoEvent == Event("none", NoPos, 0, 0, 0, 0, 0, FALSE, {}, 0)

\* the controller's fields become those of the record
Becomes(this) ==
  /\ ViewportState' = this.ViewportState
  /\ onViewportChange' = this.onViewportChange
  /\ onStateChange' = this.onStateChange
  /\ viewStateProps' = this.viewStateProps
  /\ eventManager' = this.eventManager
  /\ _events' = this._events
  /\ _state' = this._state
  /\ scrollZoom' = this.scrollZoom
  /\ dragPan' = this.dragPan
  /\ dragRotate' = this.dragRotate
  /\ doubleClickZoom' = this.doubleClickZoom
  /\ touchZoom' = this.touchZoom
  /\ touchRotate' = this.touchRotate
  /\ keyboard' = this.keyboard

----------------------------------------------------------------------------
(* Inputs *)

Variants == {"MapState", "OrbitState"}

PropsOf(zoomLevel, width, height) ==
  [longitude |-> 0, latitude |-> 0, zoom |-> zoomLevel * FP, bearing |-> 0,
   pitch |-> 0, width |-> width, height |-> height]

PropsSet ==
  {PropsOf(10, 100, 100), PropsOf(5, 100, 100), PropsOf(0, 100, 100),
   PropsOf(10, 0, 100), PropsOf(10, 100, 0)}

\* toggles switched away from their defaults, at most n of them
ToggleOptions(n) ==
  {[k \in S |-> ~ToggleDefault[k]] :
     S \in {T \in SUBSET ToggleKeys : Cardinality(T) <= n}}

CallbackOptions ==
  {cb @@ sc : cb \in {<<>>, [onViewportChange |-> "fn"]},
              sc \in {<<>>, [onStateChange |-> "fn"]}}

ManagerOptions ==
  {<<>>} \cup {[eventManager |-> m] : m \in Managers \cup {"null"}}

DefaultProps == PropsOf(10, 100, 100)

\* options objects of the gesture specification: no event manager; either
\* toggles switched with the default props, or other props with the
\* default toggles
GestureOptions ==
  {DefaultProps @@ t @@ c : t \in ToggleOptions(MaxOff), c \in CallbackOptions}
  \cup {p @@ c : p \in PropsSet, c \in CallbackOptions}

PanDeltas == {<<0, 10>>, <<10, -10>>}

\* wheel deltas: none, a notch either way, and a delta either way that is
\* large enough for 1 + Math.exp(-|delta| * 0.01) to be 1, in the doubles of
\* the code (from |delta| = 3674 on) as in the fixed point of the model
WheelDeltas == {-4000, -100, 0, 100, 4000}

Gestures ==
  {Event("panstart", <<50, 50>>, 0, 0, 0, 0, 0, FALSE, {}, 0)}
  \cup {Event("panmove", <<60, 40>>, d[1], d[2], 0, 0, 0, FALSE, h, 0) :
          d \in PanDeltas, h \in {{}, {"shiftKey"}}}
  \cup {Event("panmove", <<60, 40>>, d[1], d[2], 0, 0, 0, TRUE, {}, 0) :
          d \in PanDeltas}
  \cup {Event("panend", <<60, 40>>, 0, 0, 0, 0, 0, FALSE, {}, 0)}
  \cup {Event("pinchstart", <<50, 50>>, 0, 0, 0, FP, r, FALSE, {}, 0) :
          r \in {0, 90 * FP}}
  \cup {Event("pinchmove", <<50, 50>>, 0, 0, 0, sc, r, FALSE, {}, 0) :
          sc \in {FP \div 2, 2 * FP}, r \in {0, 90 * FP}}
  \cup {Event("pinchend", <<50, 50>>, 0, 0, 0, FP, 0, FALSE, {}, 0)}
  \cup {Event("doubletap", <<50, 50>>, 0, 0, 0, 0, 0, FALSE, h, 0) :
          h \in {{}, {"metaKey"}, {"altKey", "ctrlKey"}}}
  \cup {Event("wheel", <<50, 50>>, 0, 0, d, 0, 0, FALSE, {}, 0) :
          d \in WheelDeltas}
  \cup {Event("keydown", NoPos, 0, 0, 0, 0, 0, FALSE, {}, k) :
          k \in KeyCodes \cup {65}}
  \cup {Event("keydown", NoPos, 0, 0, 0, 0, 0, FALSE, {"shiftKey"}, k) :
          k \in KeyCodes}
  \cup {Event("click", <<50, 50>>, 0, 0, 0, 0, 0, FALSE, {}, 0)}

----------------------------------------------------------------------------
(* Actions *)

\* new ViewportControls(variant, options)
Construct(variant, options) ==
  \E made \in {constructor(variant, NoRegistrations, options)} :
     /\ ViewportState = made.this.ViewportState
     /\ onViewportChange = made.this.onViewportChange
     /\ onStateChange = made.this.onStateChange
     /\ viewStateProps = made.this.viewStateProps
     /\ eventManager = made.this.eventManager
     /\ _events = made.this._events
     /\ _state = made.this._state
     /\ scrollZoom = made.this.scrollZoom
     /\ dragPan = made.this.dragPan
     /\ dragRotate = made.this.dragRotate
     /\ doubleClickZoom = made.this.doubleClickZoom
     /\ touchZoom = made.this.touchZoom
     /\ touchRotate = made.this.touchRotate
     /\ keyboard = made.this.keyboard
     /\ registered = made.registered
     /\ event = NoEvent
     /\ ret = "none"
     /\ calls = <<>>
     /\ ops = <<>>
     /\ prevState = made.this._state
     /\ constructed = ConstructorCall(variant, options, made.thrown)
     /\ inProgress = {}
     /\ lastCall = NoCall

\* controls.setOptions(options), called between events
SetOptions(options) ==
  /\ ret = "none"
  /\ \E made \in {setOptions(This, registered, options)} :
     /\ \A m \in Managers : \A n \in EventNames :
          made.registered[m][n] <= MaxReg
     /\ Becomes(made.this)
     /\ registered' = made.registered
     /\ UNCHANGED <<observed, history>>

\* the outcomes open to handleEvent(e): those of an undefined pan
Outcomes(e) == IF e.type = "panmove" THEN UndefinedPanOutcomes ELSE {"unchanged"}

\* controls.handleEvent(e): the handler runs to its return statement
HandleEvent(e, ub) ==
  /\ ret = "none"
  /\ \E r \in {handleEvent(This, e, ub)} :
     /\ _state' = r.state
     /\ event' = e
     /\ ret' = r.ret
     /\ calls' = r.calls
     /\ ops' = r.ops
     /\ prevState' = _state
     /\ UNCHANGED <<config, registered, history>>

\* handleEvent returns: control is back with the event source, and the
\* record of the call is dropped
Return ==
  /\ ret # "none"
  /\ event' = NoEvent
  /\ ret' = "none"
  /\ calls' = <<>>
  /\ ops' = <<>>
  /\ prevState' = _state
  /\ UNCHANGED <<config, registered, _state, history>>

----------------------------------------------------------------------------
(* Gesture handling: any options without an event manager, any event *)

Init == \E v \in Variants : \E o \in GestureOptions : Construct(v, o)

Next ==
  \/ \E o \in GestureOptions : SetOptions(o)
  \/ \E e \in Gestures : \E ub \in Outcomes(e) : HandleEvent(e, ub)
  \/ Return

Spec == Init /\ [][Next]_vars

----------------------------------------------------------------------------
(* Subscription: options with any event manager, no events delivered *)

\* the toggles the subscription specification switches: one that governs a
\* group alone and the two that govern a group together
SubscriptionToggleKeys == {"scrollZoom", "dragPan", "dragRotate"}

SubscriptionOptions ==
  {DefaultProps @@ t @@ c @@ m :
     t \in {u \in ToggleOptions(MaxOff) : DOMAIN u \subseteq SubscriptionToggleKeys},
     c \in {<<>>, [onViewportChange |-> "fn"]},
     m \in ManagerOptions}

SubscriptionInit == \E o \in SubscriptionOptions : Construct("MapState", o)

SubscriptionNext == \E o \in SubscriptionOptions : SetOptions(o)

SubscriptionSpec == SubscriptionInit /\ [][SubscriptionNext]_vars

----------------------------------------------------------------------------
(* Construction: the constructor is called until it yields a controller,   *)
(* with or without a variant; the controller then takes any options        *)

ConstructionVariants == {"MapState", "undefined"}

\* options objects of the construction specification: at most one toggle
\* switched, with or without onViewportChange and an event manager
ConstructionOptions ==
  {DefaultProps @@ t @@ c @@ m :
     t \in {u \in ToggleOptions(1) : DOMAIN u \subseteq SubscriptionToggleKeys},
     c \in {<<>>, [onViewportChange |-> "fn"]},
     m \in ManagerOptions}

\* no constructor has been called
ConstructionInit ==
  /\ ViewportState = NoInstance.ViewportState
  /\ onViewportChange = NoInstance.onViewportChange
  /\ onStateChange = NoInstance.onStateChange
  /\ viewStateProps = NoInstance.viewStateProps
  /\ eventManager = NoInstance.eventManager
  /\ _events = NoInstance._events
  /\ _state = NoInstance._state
  /\ scrollZoom = NoInstance.scrollZoom
  /\ dragPan = NoInstance.dragPan
  /\ dragRotate = NoInstance.dragRotate
  /\ doubleClickZoom = NoInstance.doubleClickZoom
  /\ touchZoom = NoInstance.touchZoom
  /\ touchRotate = NoInstance.touchRotate
  /\ keyboard = NoInstance.keyboard
  /\ registered = NoRegistrations
  /\ event = NoEvent
  /\ ret = "none"
  /\ calls = <<>>
  /\ ops = <<>>
  /\ prevState = NoInstance._state
  /\ constructed = [variant |-> "none", eventManager |-> "null",
                    onViewportChange |-> "undefined", outcome |-> "none"]
  /\ inProgress = {}
  /\ lastCall = NoCall

\* new ViewportControls(variant, options), while there is no controller
New(variant, options) ==
  /\ constructed.outcome # "instance"
  /\ \E made \in {constructor(variant, registered, options)} :
       /\ Becomes(made.this)
       /\ registered' = made.registered
       /\ constructed' = ConstructorCall(variant, options, made.thrown)
       /\ UNCHANGED <<observed, inProgress, lastCall>>

ConstructionNext ==
  \/ \E v \in ConstructionVariants : \E o \in ConstructionOptions : New(v, o)
  \/ \E o \in ConstructionOptions :
       constructed.outcome = "instance" /\ SetOptions(o)

ConstructionSpec == ConstructionInit /\ [][ConstructionNext]_vars

----------------------------------------------------------------------------
(* Emission: event manager A emits the events of pan and pinch sequences,  *)
(* each sequence from its start event to its end event, and calls          *)
(* handleEvent for an event when it is registered for the event's name;    *)
(* setOptions is called between the events                                 *)

EmissionToggleKeys == {"dragPan", "dragRotate", "touchZoom"}

EmissionOptions ==
  {DefaultProps @@ t @@ c @@ [eventManager |-> "A"] :
     t \in {u \in ToggleOptions(MaxOff) : DOMAIN u \subseteq EmissionToggleKeys},
     c \in {<<>>, [onViewportChange |-> "fn"]}}

EmittedGestures == {e \in Gestures : e.type \in PAN \cup PINCH}

\* the sequence an event belongs to
SequenceOf(e) == IF e.type \in PAN THEN "pan" ELSE "pinch"

\* a start event opens a sequence that is not in progress; the other events
\* belong to a sequence in progress
CanEmit(e) ==
  IF e.type \in {"panstart", "pinchstart"}
    THEN SequenceOf(e) \notin inProgress
    ELSE SequenceOf(e) \in inProgress

\* the sequences in progress after the event
AfterEmit(e) ==
  IF e.type \in {"panstart", "pinchstart"} THEN inProgress \cup {SequenceOf(e)}
  ELSE IF e.type \in {"panend", "pinchend"} THEN inProgress \ {SequenceOf(e)}
  ELSE inProgress

\* the event manager emits e: handleEvent runs when it is registered for
\* the name of e, and nothing of the controller changes when it is not
Emit(e, ub) ==
  /\ ret = "none"
  /\ eventManager = "A"
  /\ CanEmit(e)
  /\ inProgress' = AfterEmit(e)
  /\ IF registered["A"][e.type] > 0
       THEN \E r \in {handleEvent(This, e, ub)} :
              /\ _state' = r.state
              /\ event' = e
              /\ ret' = r.ret
              /\ calls' = r.calls
              /\ ops' = r.ops
              /\ prevState' = _state
       ELSE UNCHANGED <<_state, observed>>
  /\ UNCHANGED <<config, registered, constructed, lastCall>>

EmissionInit == \E o \in EmissionOptions : Construct("MapState", o)

EmissionNext ==
  \/ \E o \in EmissionOptions : SetOptions(o)
  \/ \E e \in EmittedGestures : \E ub \in Outcomes(e) : Emit(e, ub)
  \/ Return

EmissionSpec == EmissionInit /\ [][EmissionNext]_vars

----------------------------------------------------------------------------
(* Configuration: setOptions is called again and again with options that   *)
(* supply or omit a toggle of either default, the callbacks and the event  *)
(* manager; each call is recorded with the controller it found             *)

ConfigurationToggleKeys == {"scrollZoom", "touchRotate"}

ConfigurationOptions ==
  {DefaultProps @@ t @@ c @@ m :
     t \in {u \in ToggleOptions(MaxOff) :
              DOMAIN u \subseteq ConfigurationToggleKeys},
     c \in CallbackOptions,
     m \in {<<>>} \cup {[eventManager |-> e] : e \in Managers}}

\* controls.setOptions(options), recorded
Configure(options) ==
  /\ ret = "none"
  /\ \E made \in {setOptions(This, registered, options)} :
     /\ \A m \in Managers : \A n \in EventNames :
          made.registered[m][n] <= MaxReg
     /\ Becomes(made.this)
     /\ registered' = made.registered
     /\ lastCall' = [made |-> TRUE, options |-> options, before |-> This]
     /\ UNCHANGED <<observed, constructed, inProgress>>

ConfigurationInit ==
  \E o \in ConfigurationOptions : Construct("MapState", o)

ConfigurationNext == \E o \in ConfigurationOptions : Configure(o)

ConfigurationSpec == ConfigurationInit /\ [][ConfigurationNext]_vars

----------------------------------------------------------------------------
(* Properties *)

\* handleEvent has run and not yet returned to its caller
Handled == ret # "none"

IsViewportChange(c) == c.fn = "onViewportChange"

IsStateChange(c) == c.fn = "onStateChange"

ViewportChangeCalls == SelectSeq(calls, IsViewportChange)

StateChangeCalls == SelectSeq(calls, IsStateChange)

HeldOrSecondary == isFunctionKeyPressed(event) \/ event.rightButton

DefaultToggles ==
  /\ scrollZoom /\ dragPan /\ dragRotate /\ doubleClickZoom /\ touchZoom
  /\ ~touchRotate /\ keyboard

ToggleValue ==
  [scrollZoom |-> scrollZoom, dragPan |-> dragPan, dragRotate |-> dragRotate,
   doubleClickZoom |-> doubleClickZoom, touchZoom |-> touchZoom,
   touchRotate |-> touchRotate, keyboard |-> keyboard]

\* the gesture events a toggle corresponds to
GroupOf(k) ==
  CASE k = "scrollZoom" -> WHEEL
    [] k \in {"dragPan", "dragRotate"} -> PAN
    [] k \in {"touchZoom", "touchRotate"} -> PINCH
    [] k = "doubleClickZoom" -> DOUBLE_TAP
    [] k = "keyboard" -> KEYBOARD

\* handleEvent is subscribed to the name on the current event manager
Subscribed(n) == eventManager # "null" /\ registered[eventManager][n] > 0

\* every toggle governing the type of the handled event is false
GoverningOff ==
  CASE event.type \in WHEEL -> ~scrollZoom
    [] event.type \in PAN -> ~dragPan /\ ~dragRotate
    [] event.type \in PINCH -> ~touchZoom /\ ~touchRotate
    [] event.type \in DOUBLE_TAP -> ~doubleClickZoom
    [] event.type \in KEYBOARD -> ~keyboard
    [] OTHER -> FALSE

\* C1: onViewportChange is invoked only if some ViewportProps field of the
\* new state differs from the same field of the props the event started
\* from.  The code also compares the keys of the transition spec it attaches,
\* which the old ViewportProps never hold, so a panstart that changes no
\* field invokes the callback.
C1_OnlyOnFieldDiff ==
  \A i \in DOMAIN calls :
    IsViewportChange(calls[i]) =>
      \E k \in ViewportPropKeys :
        StrictNotEqual(viewStateProps[k], calls[i].arg[k])

\* C2: a handled event with onStateChange set invokes onStateChange exactly
\* once, last, with the new InteractionState, and onViewportChange at most
\* once and before it.
C2_StateChangeOnceAndLast ==
  (ret = "undefined" /\ onStateChange = "fn") =>
    /\ Len(StateChangeCalls) = 1
    /\ Len(ViewportChangeCalls) <= 1
    /\ IsStateChange(calls[Len(calls)])
    /\ calls[Len(calls)].arg = _state

\* C2 witness: an event ending a pan is handled with both callbacks set and
\* only onStateChange is invoked
C2_Witness ==
  /\ ret = "undefined" /\ event.type = "panend"
  /\ onStateChange = "fn" /\ onViewportChange = "fn"
  /\ prevState.isDragging
  /\ Len(calls) = 1 /\ IsStateChange(calls[1])

\* C3: when the last setOptions supplied no onViewportChange, handleEvent is
\* subscribed to none of the nine event names on the current event manager.
C3_NotInteractiveNotSubscribed ==
  onViewportChange # "fn" => \A n \in EventNames : ~Subscribed(n)

\* C3 witness: no onViewportChange, manager A current with every name
\* toggled off, after the controller was subscribed on manager B
C3_Witness ==
  /\ onViewportChange # "fn" /\ eventManager = "A"
  /\ \A n \in EventNames : _events[n] = "false"
  /\ registered["B"]["panmove"] > 0

C5_NoViewportChange ==
  (Handled /\ event.type = "panmove" /\ ~dragPan) => ViewportChangeCalls = <<>>

\* C5 amended: with dragPan off a panmove calls no pan and proposes no
\* change of position; it is ignored unless a function key or the secondary
\* button is held and dragRotate is on, and then it rotates.
C5_NoPositionChange ==
  (Handled /\ event.type = "panmove" /\ ~dragPan) =>
    /\ \A i \in DOMAIN ops : ops[i].op # "pan"
    /\ \A i \in DOMAIN calls :
         IsViewportChange(calls[i]) =>
           /\ calls[i].arg.longitude = viewStateProps.longitude
           /\ calls[i].arg.latitude = viewStateProps.latitude
    /\ IF HeldOrSecondary /\ dragRotate
         THEN Len(ops) = 1 /\ ops[1].op = "rotate"
         ELSE ret = "false" /\ calls = <<>> /\ ops = <<>>

\* C5 witness: dragPan off, dragRotate on, a panmove with a function key
\* held has invoked onViewportChange
C5_Witness ==
  /\ event.type = "panmove" /\ ~dragPan /\ dragRotate
  /\ isFunctionKeyPressed(event)
  /\ ViewportChangeCalls # <<>>

\* C6: an event whose governing toggles are all false is ignored:
\* handleEvent returns false, invokes no callback and leaves _state alone.
\* The handlers of panstart, panend, pinchstart and pinchend have no guard.
C6_DisabledIgnored ==
  (Handled /\ GoverningOff) =>
    ret = "false" /\ calls = <<>> /\ _state = prevState

\* C7: an event of no recognised type is ignored: handleEvent returns
\* false, invokes no callback and leaves _state alone.
C7_UnknownIgnored ==
  (Handled /\ event.type \notin EventNames) =>
    ret = "false" /\ calls = <<>> /\ ops = <<>> /\ _state = prevState

\* C7 witness: an unknown event arrives during a drag with both callbacks set
C7_Witness ==
  /\ Handled /\ event.type = "click"
  /\ onViewportChange = "fn" /\ onStateChange = "fn"
  /\ _state.isDragging

\* C8: with the default toggles, the onStateChange call of a panstart or a
\* panmove reports isDragging = TRUE, and the call of a panend is the last
\* call and reports isDragging = FALSE.
C8_DraggingDuringPan ==
  (Handled /\ DefaultToggles /\ onStateChange = "fn") =>
    /\ event.type \in {"panstart", "panmove"} =>
         /\ Len(StateChangeCalls) = 1
         /\ StateChangeCalls[1].arg.isDragging
         /\ _state.isDragging
    /\ event.type = "panend" =>
         /\ Len(StateChangeCalls) = 1
         /\ IsStateChange(calls[Len(calls)])
         /\ ~calls[Len(calls)].arg.isDragging
         /\ ~_state.isDragging

\* C8 witness: the panend of a pan in progress is handled with the default
\* toggles and onStateChange set
C8_Witness ==
  /\ Handled /\ event.type = "panend" /\ DefaultToggles
  /\ onStateChange = "fn"
  /\ prevState.isDragging /\ prevState.isPanning
  /\ ~_state.isDragging

\* a wheel event with a negative delta is handled with scrollZoom on and
\* onViewportChange set
NegativeWheel ==
  /\ Handled /\ event.type = "wheel" /\ event.delta < 0
  /\ scrollZoom /\ onViewportChange = "fn"

\* C9 as stated: a wheel event with a negative delta, from a zoom above 0,
\* proposes a zoom greater than the starting zoom, in one onViewportChange
\* call with duration 0.
C9_NegativeDeltaZoomsIn ==
  (NegativeWheel /\ viewStateProps.zoom > 0) =>
    /\ Len(ViewportChangeCalls) = 1
    /\ ViewportChangeCalls[1].arg.zoom > viewStateProps.zoom
    /\ ViewportChangeCalls[1].arg.transitionDuration = 0

\* C9 amended: a wheel event with a negative delta passes to zoom a scale
\* below 1, so the proposed zoom is not greater than the starting zoom and
\* is lower when that is above 0; onViewportChange is called once, with
\* the instant transition spec.
C9_NegativeDeltaZoomsOut ==
  NegativeWheel =>
    /\ Len(ops) = 1 /\ ops[1].op = "zoom"
    /\ ops[1].scale > 0 /\ ops[1].scale < FP
    /\ Len(ViewportChangeCalls) = 1
    /\ ViewportChangeCalls[1].arg.zoom <= viewStateProps.zoom
    /\ viewStateProps.zoom > 0 =>
         ViewportChangeCalls[1].arg.zoom < viewStateProps.zoom
    /\ ViewportChangeCalls[1].arg.transitionDuration = 0
    /\ DOMAIN ViewportChangeCalls[1].arg =
         ViewportPropKeys \cup {"transitionDuration"}

\* C9 witness: the wheel event of delta -100 is handled from zoom 10
C9_Witness ==
  /\ NegativeWheel /\ event.delta = -100
  /\ viewStateProps.zoom = 10 * FP
  /\ ret = "undefined"

\* C10: a doubletap with doubleClickZoom on applies one zoom at the tap
\* position, of scale 2 without a function key and 0.5 with one, and the
\* props it passes to onViewportChange carry the linear transition spec.
C10_DoubleTapZoom ==
  (Handled /\ event.type = "doubletap" /\ doubleClickZoom) =>
    /\ ops = <<Call("zoom", event.offsetCenter,
                    IF isFunctionKeyPressed(event) THEN FP \div 2 ELSE 2 * FP,
                    Undefined, Undefined)>>
    /\ Len(ViewportChangeCalls) <= 1
    /\ \A i \in DOMAIN calls :
         IsViewportChange(calls[i]) =>
           /\ calls[i].arg.transitionDuration = 300
           /\ calls[i].arg.transitionInterruption = "BREAK"
           /\ calls[i].arg.transitionEasing = "identity"
           /\ calls[i].arg.transitionInterpolator = "LinearInterpolator"

\* C10 witness: a doubletap with the meta key held has zoomed by 0.5 and
\* invoked onViewportChange
C10_Witness ==
  /\ Handled /\ event.type = "doubletap" /\ doubleClickZoom
  /\ event.srcEvent.metaKey
  /\ ViewportChangeCalls # <<>>
  /\ ops[1].scale = FP \div 2

\* the operation that opens the pairing of a step operation
StartOf(step) ==
  CASE step = "pan" -> "panStart"
    [] step = "rotate" -> "rotateStart"
    [] step = "zoom" -> "zoomStart"

\* the operation that closes it
EndOf(step) ==
  CASE step = "pan" -> "panEnd"
    [] step = "rotate" -> "rotateEnd"
    [] step = "zoom" -> "zoomEnd"

\* the InteractionState flag a start sets and an end clears
FlagOf(step) ==
  CASE step = "pan" -> "isPanning"
    [] step = "rotate" -> "isRotating"
    [] step = "zoom" -> "isZooming"

\* a start of the step precedes the i-th operation of the handled event and
\* no end of it lies between: either in the operations of this event, or,
\* when these hold neither, in the events before it
OpenBefore(step, i) ==
  LET marks == {j \in 1..(i - 1) : ops[j].op \in {StartOf(step), EndOf(step)}}
  IN IF marks = {}
       THEN prevState[FlagOf(step)]
       ELSE ops[CHOOSE j \in marks : \A k \in marks : k <= j].op = StartOf(step)

\* C11: the controller calls pan, rotate and zoom only between the matching
\* start and end: every pan follows a panStart that no panEnd has closed,
\* every rotate a rotateStart, every zoom a zoomStart.  The wheel and
\* doubletap handlers call zoom with no zoomStart, and a panmove or
\* pinchmove is handled whether or not its start event came first.
C11_PairingDiscipline ==
  \A i \in DOMAIN ops :
    ops[i].op \in {"pan", "rotate", "zoom"} => OpenBefore(ops[i].op, i)

\* the ViewportProps held have a zero dimension
ZeroDimension == viewStateProps.width = 0 \/ viewStateProps.height = 0

\* C12: with a zero width or height, a panmove that rotates (function key or
\* secondary button held, dragRotate on) calls no rotate with a delta that
\* is no number and passes no prop that is no number to onViewportChange.
\* Neither pan-to-rotate handler checks the dimensions before it divides.
C12_ZeroDimensionSkipped ==
  (Handled /\ event.type = "panmove" /\ HeldOrSecondary /\ dragRotate
     /\ ZeroDimension) =>
    /\ \A i \in DOMAIN ops :
         ops[i].op = "rotate" =>
           IsNumber(ops[i].deltaScaleX) /\ IsNumber(ops[i].deltaScaleY)
    /\ \A i \in DOMAIN calls :
         IsViewportChange(calls[i]) =>
           \A k \in ViewportPropKeys : IsNumber(calls[i].arg[k])

\* the InteractionState of a controller with no gesture in progress; the
\* pinch anchor is 0, or absent as it is after construction
DefaultInteractionState(s) ==
  /\ ~s.isDragging /\ ~s.isPanning /\ ~s.isRotating /\ ~s.isZooming
  /\ s.startPanPos = NoPos
  /\ s.startPinchRotation \in {0, Undefined}

\* C13: after a panend or a pinchend the InteractionState the controller
\* holds, and the one it reports to onStateChange, is the default one.
\* _onPanEnd ends the pan and the rotation only and _onPinchEnd the zoom and
\* the rotation only, and setState merges: what the other gesture set stays.
C13_ResetAtGestureEnd ==
  (Handled /\ event.type \in {"panend", "pinchend"}) =>
    /\ DefaultInteractionState(_state)
    /\ \A i \in DOMAIN calls :
         IsStateChange(calls[i]) => DefaultInteractionState(calls[i].arg)

\* C14: a constructor call without a variant fails with an error at once:
\* there is no controller, no variant stands in for the missing one, and
\* handleEvent is subscribed on no event manager.
C14_MissingVariantFails ==
  constructed.variant = "undefined" =>
    /\ constructed.outcome = "AssertionError"
    /\ ViewportState = "none"
    /\ eventManager = "null" /\ _events = NoEvents
    /\ registered = NoRegistrations

\* C14 witness: the constructor was called without a variant and with
\* options that hold event manager A and an onViewportChange callback
C14_Witness ==
  /\ constructed.variant = "undefined"
  /\ constructed.eventManager = "A" /\ constructed.onViewportChange = "fn"
  /\ constructed.outcome = "AssertionError"
  /\ registered["A"]["wheel"] = 0

\* the ViewportProps an operation of ViewportState may change
TouchedBy(op) ==
  CASE op \in {"pan", "moveLeft", "moveRight", "moveUp", "moveDown"} ->
         {"longitude", "latitude"}
    [] op \in {"rotate", "rotateLeft", "rotateRight", "rotateUp", "rotateDown"} ->
         {"bearing", "pitch"}
    [] op \in {"zoom", "zoomIn", "zoomOut"} -> {"zoom"}
    [] OTHER -> {}

\* the ViewportProps the operations of the handled event may change
Touched == UNION {TouchedBy(ops[i].op) : i \in DOMAIN ops}

\* what a handled event proposes starts from the ViewportProps held: the
\* props its operations leave alone are those of viewStateProps, one zoom by
\* a scale multiplies the zoom of viewStateProps, and _state carries no
\* ViewportProps to the next event
ProposedFromHeldProps ==
  Handled =>
    /\ DOMAIN _state \cap ViewportPropKeys = {}
    /\ \A i \in DOMAIN calls :
         IsViewportChange(calls[i]) =>
           /\ \A k \in ViewportPropKeys \ Touched :
                calls[i].arg[k] = viewStateProps[k]
           /\ (Len(ops) = 1 /\ ops[1].op = "zoom") =>
                calls[i].arg.zoom =
                  MathMax(0, JsMul(viewStateProps.zoom, ops[1].scale))

\* a step in which handleEvent runs
HandleEventStep == ret = "none" /\ ret' # "none"

\* C15: handleEvent leaves viewStateProps alone, so it changes through
\* setOptions only, and every event proposes new props computed from
\* viewStateProps: the controller keeps no proposed value, and _state, which
\* holds no ViewportProps, is all that one event passes to the next.
C15_PropsHeldNotAccumulated ==
  /\ []ProposedFromHeldProps
  /\ [][HandleEventStep => viewStateProps' = viewStateProps]_vars

\* C15 witness: a wheel event handled while a drag is in progress, so after
\* other events and with no setOptions since, proposes a zoom that is not
\* the one held
C15_Witness ==
  /\ Handled /\ event.type = "wheel" /\ prevState.isDragging
  /\ ViewportChangeCalls # <<>>
  /\ ViewportChangeCalls[1].arg.zoom # viewStateProps.zoom

\* the names of the operations of the handled event, in order
OpNames == [i \in DOMAIN ops |-> ops[i].op]

\* C16: a panmove calls at most one of rotate and pan: rotate exactly when a
\* function key or the secondary button is held and dragRotate is on, pan
\* exactly when neither is held and dragPan is on.
C16_PanMoveOneStep ==
  (Handled /\ event.type = "panmove") =>
    /\ Cardinality({i \in DOMAIN ops : ops[i].op \in {"pan", "rotate"}}) <= 1
    /\ (\E i \in DOMAIN ops : ops[i].op = "rotate")
         <=> (HeldOrSecondary /\ dragRotate)
    /\ (\E i \in DOMAIN ops : ops[i].op = "pan")
         <=> (~HeldOrSecondary /\ dragPan)

\* C16 witness: a panmove with a function key held, dragRotate off and
\* dragPan on, during a pan, is ignored
C16_Witness ==
  /\ Handled /\ event.type = "panmove" /\ isFunctionKeyPressed(event)
  /\ ~dragRotate /\ dragPan /\ prevState.isPanning
  /\ ops = <<>> /\ ret = "false"

\* C17: with keyboard on, a keydown of 189 steps the zoom out and of 187 in,
\* twice with a function key held; 37, 39, 38, 40 move left, right, up, down
\* without a function key and rotate left, right, up, down with one; what is
\* passed to onViewportChange carries the linear transition spec.  Any other
\* key is ignored: handleEvent returns false, invokes no callback and leaves
\* _state alone.
C17_KeyboardSteps ==
  (Handled /\ event.type = "keydown" /\ keyboard) =>
    LET k == event.srcEvent.keyCode
        f == isFunctionKeyPressed(event)
    IN IF k \in {189, 187, 37, 39, 38, 40}
         THEN /\ ret = "undefined"
              /\ k = 189 => OpNames = IF f THEN <<"zoomOut", "zoomOut">>
                                           ELSE <<"zoomOut">>
              /\ k = 187 => OpNames = IF f THEN <<"zoomIn", "zoomIn">>
                                           ELSE <<"zoomIn">>
              /\ k = 37 => OpNames = IF f THEN <<"rotateLeft">> ELSE <<"moveLeft">>
              /\ k = 39 => OpNames = IF f THEN <<"rotateRight">> ELSE <<"moveRight">>
              /\ k = 38 => OpNames = IF f THEN <<"rotateUp">> ELSE <<"moveUp">>
              /\ k = 40 => OpNames = IF f THEN <<"rotateDown">> ELSE <<"moveDown">>
              /\ Len(ViewportChangeCalls) <= 1
              /\ \A i \in DOMAIN calls :
                   IsViewportChange(calls[i]) =>
                     /\ calls[i].arg.transitionDuration = 300
                     /\ calls[i].arg.transitionEasing = "identity"
                     /\ calls[i].arg.transitionInterpolator = "LinearInterpolator"
                     /\ calls[i].arg.transitionInterruption = "BREAK"
         ELSE ret = "false" /\ calls = <<>> /\ ops = <<>> /\ _state = prevState

\* C17 witness: the key 187 with the shift key held has stepped the zoom in
\* twice and the result was passed to onViewportChange
C17_Witness ==
  /\ Handled /\ event.type = "keydown" /\ keyboard
  /\ event.srcEvent.keyCode = 187 /\ event.srcEvent.shiftKey
  /\ Len(ops) = 2
  /\ ViewportChangeCalls # <<>>
  /\ ViewportChangeCalls[1].arg.zoom > viewStateProps.zoom

WheelZoomed ==
  /\ Handled /\ event.type = "wheel" /\ scrollZoom
  /\ Len(ops) = 1 /\ ops[1].op = "zoom"

\* C19 as stated: the scale a wheel event passes to zoom is 1 for delta 0,
\* at least 1 and below 2 for a positive delta, above 1/2 and at most 1 for a
\* negative one.
C19_ScaleHalfOpen ==
  (Handled /\ event.type = "wheel" /\ scrollZoom) =>
    /\ WheelZoomed
    /\ event.delta = 0 => ops[1].scale = FP
    /\ event.delta >= 0 => (ops[1].scale >= FP /\ ops[1].scale < 2 * FP)
    /\ event.delta < 0 => (ops[1].scale > FP \div 2 /\ ops[1].scale <= FP)

\* C19 amended: the scale a wheel event passes to zoom is a positive number,
\* 1 for delta 0, from 1 to 2 for a positive delta and from 1/2 to 1 for a
\* negative one, the ends included: 2 and 1/2 are reached when the delta is
\* so large that 1 + Math.exp(-|delta| * 0.01) is 1.
C19_ScaleBounded ==
  (Handled /\ event.type = "wheel" /\ scrollZoom) =>
    /\ WheelZoomed
    /\ IsNumber(ops[1].scale) /\ ops[1].scale > 0
    /\ event.delta = 0 => ops[1].scale = FP
    /\ event.delta >= 0 => (ops[1].scale >= FP /\ ops[1].scale <= 2 * FP)
    /\ event.delta < 0 => (ops[1].scale >= FP \div 2 /\ ops[1].scale <= FP)

\* C19 witness: the wheel event of delta 4000 has passed the scale 2 to zoom
C19_Witness ==
  /\ WheelZoomed /\ event.delta = 4000
  /\ ops[1].scale = 2 * FP

\* handleEvent is registered at most once per name on every event manager,
\* on no event manager but the current one, and _events is true for exactly
\* the names registered on the current one
CleanRegistrations ==
  /\ \A m \in Managers : \A n \in EventNames : registered[m][n] <= 1
  /\ \A m \in Managers \ {eventManager} : \A n \in EventNames :
       registered[m][n] = 0
  /\ \A n \in EventNames : (_events[n] = "true") <=> Subscribed(n)

\* a step that changes neither the event manager nor an enabled-state
SameEnabledState == eventManager' = eventManager /\ _events' = _events

\* C20: after any sequence of setOptions calls, replacements of the event
\* manager included, the registrations are clean, and a setOptions call
\* that changes no enabled-state makes no on or off call.  setOptions takes
\* the new event manager and empties _events without an off on the old one,
\* whose registrations stay and are doubled when it becomes current again.
C20_CleanSwap ==
  /\ []CleanRegistrations
  /\ [][SameEnabledState => registered' = registered]_vars

\* C21: isDragging is true only while the event manager has a pan or pinch
\* sequence in progress: when every sequence it started has ended, the
\* controller's isDragging is false.  A setOptions call that unsubscribes
\* the pan events after the panstart keeps the panend from handleEvent, and
\* nothing else sets isDragging back.
C21_DraggingOnlyInProgress ==
  inProgress = {} => ~_state.isDragging

====
